---- MODULE Spec2Model ----
(***************************************************************************)
(* Model of download_todays_data.py: the daily price-file downloader.      *)
(*                                                                         *)
(* Three entry points are modelled, each with its own specification:       *)
(*   Spec          the program as it is started (module body, app.run()),  *)
(*                 possibly several times in a row on the same day;        *)
(*   SpecRetriever a direct call of DownloadFile.download_todays_price;    *)
(*   SpecAwait     a direct call of DownloadFile.wait_for_download_complete*)
(*                 while the browser writes into the download directory.   *)
(* SpecEntryPoints takes the first two together.                           *)
(*                                                                         *)
(* Python's run-time errors are part of the behaviour that is modelled: a  *)
(* missing attribute raises AttributeError, a call with the wrong number   *)
(* of positional arguments raises TypeError.                               *)
(***************************************************************************)
EXTENDS Integers, Sequences, FiniteSets, TLC

VARIABLES
    today,            \* datetime.today().date(): day of May 2024
    dirExists,        \* RAW_SAVED_DIR exists on disk
    files,            \* content of RAW_SAVED_DIR (set of file records)
    pc,               \* position of the running code
    run,              \* number of the current invocation of the program
    exc,              \* exception in flight or caught ("none" if none)
    success,          \* value returned by download_todays_data ("unset" if none)
    todays_files,     \* value returned by get_todays_files (empty if none)
    raw_file,         \* value bound at line 338 ("unset" if none)
    listCalls,        \* calls of get_todays_files in this invocation
    retrieverCalls,   \* calls of download_todays_price in this invocation
    exitStatus,       \* exit status of the process (-1 until it ends)
    session,          \* browser session: "none", "live" or "closed"
    sessionsStarted,  \* browser sessions started so far
    quitAttempted,    \* driver.quit() has been called
    sweepDone,        \* kill_chromedriver() has been called
    pageLoaded,       \* driver.get(NEPSE_URL) returned normally
    clickable,        \* selectors (by index) that find a clickable element
    clickRaises,      \* download_link.click() raises on this page
    download_link,    \* local of download_todays_price: the selector that
                      \* found the element, 0 while None or not bound
    initial_files,    \* the "before" snapshot
    downloaded_file,  \* local of download_todays_price ("unbound" if unbound)
    awaitResult       \* value returned by wait_for_download_complete

vars == <<today, dirExists, files, pc, run, exc, success, todays_files,
          raw_file, listCalls, retrieverCalls, exitStatus, session,
          sessionsStarted, quitAttempted, sweepDone, pageLoaded, clickable,
          clickRaises, download_link, initial_files, downloaded_file,
          awaitResult>>

appVars == <<success, todays_files, raw_file, listCalls, retrieverCalls,
             exitStatus, run>>

retrVars == <<session, sessionsStarted, quitAttempted, sweepDone, pageLoaded,
              initial_files, downloaded_file>>

pageVars == <<clickable, clickRaises, download_link>>

-----------------------------------------------------------------------------
(* Bounds *)

\* Invocations of the program in a row on the same day.
MaxRuns == 2

-----------------------------------------------------------------------------
(* Configuration and the calendar *)

WEEKEND_DAYS == {4, 5}

\* The days of May 2024 the model runs on: Monday 20, Tuesday 21, Friday 24,
\* Saturday 25.
Days == {20, 21, 24, 25}

\* date.weekday(): Monday is 0.  20 May 2024 is a Monday.
Weekday(d) == (d - 20) % 7

\* datetime.strptime(s, "%Y-%m-%d").date(): [exc, day]; exc is ValueError
\* when s does not parse.  The format accepts a month or a day without its
\* leading zero.
Strptime(s) ==
    CASE s = "2024-05-20" -> [exc |-> "none", day |-> 20]
      [] s = "2024-5-20"  -> [exc |-> "none", day |-> 20]
      [] s = "2024-05-21" -> [exc |-> "none", day |-> 21]
      [] s = "2024-05-24" -> [exc |-> "none", day |-> 24]
      [] s = "2024-05-25" -> [exc |-> "none", day |-> 25]
      [] OTHER            -> [exc |-> "ValueError", day |-> 0]

\* date.strftime(DATE_FORMAT)
get_today_date_str(d) ==
    CASE d = 20 -> "2024-05-20"
      [] d = 21 -> "2024-05-21"
      [] d = 24 -> "2024-05-24"
      [] d = 25 -> "2024-05-25"

-----------------------------------------------------------------------------
(* Files.  A file is its name and its modification day.  A name is kept as *)
(* the pieces of its stem between the separators " - " and its suffix:     *)
(* Path.stem.split(" - ") is `parts`, Path.suffix is `suffix`.             *)

File(parts, suffix, mday) == [parts |-> parts, suffix |-> suffix, mday |-> mday]

Label == "Today's Price"

FileUniverse ==
    { File(<<Label, "2024-05-20">>, ".csv", 20),
      File(<<Label, "2024-05-21">>, ".csv", 21),
      File(<<Label, "2024-05-21">>, ".CSV", 20),
      File(<<Label, "2024-5-20">>, ".csv", 20),
      File(<<"notes">>, ".csv", 20),
      File(<<Label, "2024-05-20.csv">>, ".crdownload", 20),
      File(<<"readme">>, ".txt", 20) }

\* str.lower() on the suffixes of the universe
Lower(s) == IF s = ".CSV" THEN ".csv" ELSE s

\* Path.glob("*.csv"): the pattern is matched case-sensitively
GlobCsv(dir) == {f \in dir : f.suffix = ".csv"}

\* Path.glob("*.crdownload")
GlobCrdownload(dir) == {f \in dir : f.suffix = ".crdownload"}

-----------------------------------------------------------------------------
(* Python run-time rules the code depends on *)

\* Attributes of the class datetime.time, which is what the name `time` is
\* bound to by "from datetime import datetime, time".
time == {"hour", "minute", "second", "microsecond", "tzinfo", "fold",
         "min", "max", "resolution", "replace", "isoformat",
         "fromisoformat", "strftime", "utcoffset", "dst", "tzname"}

\* Attributes of a PriceDataApp instance.
PriceDataApp == {"file_manager", "market_checker", "download_file",
                 "download_todays_data", "run"}

\* obj.name: "none" when the attribute exists, else the exception raised.
GetAttr(obj, name) == IF name \in obj THEN "none" ELSE "AttributeError"

\* Positional parameters declared by "def is_file_from_today(file_path)" and
\* by "def is_file_modified_today(file_path)": neither declares self and
\* neither is a staticmethod.
is_file_from_today_params == 1

is_file_modified_today_params == 1

\* self.f(x) on a plain function defined in the class passes self and x.
BoundCall(params, given) == IF given + 1 = params THEN "none" ELSE "TypeError"

-----------------------------------------------------------------------------
(* MarketChecker and PriceFileManager *)

is_weekend_sat_sun(d) == Weekday(d) \in {5, 6}

is_weekend(d) == Weekday(d) \in WEEKEND_DAYS

\* Body of is_file_from_today: [exc, value]; the day parsed from the last
\* piece of the stem equals today, ValueError when it does not parse.
is_file_from_today(f, d) ==
    LET date_str == f.parts[Len(f.parts)]
        file_creation_date == Strptime(date_str)
    IN  [exc |-> file_creation_date.exc,
         value |-> file_creation_date.exc = "none" /\ file_creation_date.day = d]

\* Body of is_file_modified_today
is_file_modified_today(f, d) == f.mday = d

get_todays_files_wrong_pattern(dir, d) ==
    LET existing_files == {f \in dir : f.suffix = ".CSV"}
        bind == BoundCall(is_file_from_today_params, 1)
    IN  IF existing_files = {} THEN [exc |-> "none", value |-> {}]
        ELSE [exc |-> bind, value |-> {}]

\* get_todays_files: [exc, value]; value is empty when exc is raised.  The
\* comprehension calls self.is_file_from_today(f) for every *.csv file, so
\* the first call already raises when the call does not bind.  The value is
\* kept as a set: the callers only test whether the sorted list is empty.
get_todays_files(dir, d) ==
    LET existing_files == GlobCsv(dir)
        bind == BoundCall(is_file_from_today_params, 1)
    IN  IF existing_files = {} THEN [exc |-> "none", value |-> {}]
        ELSE IF bind # "none" THEN [exc |-> bind, value |-> {}]
        ELSE IF \E f \in existing_files : is_file_from_today(f, d).exc # "none"
             THEN [exc |-> "ValueError", value |-> {}]
        ELSE [exc |-> "none",
              value |-> {f \in existing_files : is_file_from_today(f, d).value}]

-----------------------------------------------------------------------------
(* The program: module body, PriceDataApp.run, download_todays_data *)

InitState(start) ==
    /\ today \in Days
    /\ files \in SUBSET FileUniverse
    /\ pc = start
    /\ run = 1
    /\ exc = "none"
    /\ success = "unset"
    /\ todays_files = {}
    /\ raw_file = "unset"
    /\ listCalls = 0
    /\ retrieverCalls = 0
    /\ exitStatus = -1
    /\ session = "none"
    /\ sessionsStarted = 0
    /\ quitAttempted = FALSE
    /\ sweepDone = FALSE
    /\ pageLoaded = FALSE
    /\ downloaded_file = "unbound"
    /\ download_link = 0
    /\ awaitResult = "unset"

\* The state when the interpreter starts executing the module.
Init ==
    /\ InitState("module")
    /\ dirExists \in BOOLEAN
    /\ (~dirExists => files = {})
    /\ clickable = {}
    /\ clickRaises = FALSE
    /\ initial_files = {}

ModuleStart_recreates_dir ==
    /\ pc = "module"
    /\ dirExists' = TRUE
    /\ files' = {}
    /\ pc' = "is_weekend"
    /\ UNCHANGED <<today, exc, awaitResult>>
    /\ UNCHANGED pageVars
    /\ UNCHANGED appVars
    /\ UNCHANGED retrVars

\* Lines 19-56 and 362: configuration, RAW_SAVED_DIR.mkdir(parents=True,
\* exist_ok=True), logging set-up, app = PriceDataApp(); then app.run()
\* enters download_todays_data.
ModuleStart ==
    /\ pc = "module"
    /\ dirExists' = TRUE
    /\ pc' = "is_weekend"
    /\ UNCHANGED <<today, files, exc, awaitResult>>
    /\ UNCHANGED pageVars
    /\ UNCHANGED appVars
    /\ UNCHANGED retrVars

\* Lines 324-326
CheckWeekend ==
    /\ pc = "is_weekend"
    /\ IF is_weekend(today)
       THEN /\ success' = "True"
            /\ pc' = "run_else"
       ELSE /\ success' = success
            /\ pc' = "get_todays_files"
    /\ UNCHANGED <<today, dirExists, files, exc, awaitResult,
                   todays_files, raw_file, listCalls, retrieverCalls,
                   exitStatus, run>>
    /\ UNCHANGED pageVars
    /\ UNCHANGED retrVars

\* Lines 329-334
GetTodaysFiles ==
    /\ pc = "get_todays_files"
    /\ listCalls' = listCalls + 1
    /\ LET r == get_todays_files(files, today)
       IN  /\ exc' = r.exc
           /\ todays_files' = r.value
           /\ IF r.exc # "none"
              THEN /\ pc' = "run_except"
                   /\ success' = success
              ELSE IF r.value # {}
              THEN /\ pc' = "run_else"
                   /\ success' = "True"
              ELSE /\ pc' = "download"
                   /\ success' = success
    /\ UNCHANGED <<today, dirExists, files, awaitResult, raw_file,
                   retrieverCalls, exitStatus, run>>
    /\ UNCHANGED pageVars
    /\ UNCHANGED retrVars

\* Line 338: raw_file = self.download_filedownload_todays_price().  The
\* attribute is looked up on the PriceDataApp instance before anything is
\* called.
InvokeRetriever ==
    /\ pc = "download"
    /\ LET e == GetAttr(PriceDataApp, "download_filedownload_todays_price")
       IN  /\ exc' = e
           /\ IF e # "none"
              THEN /\ pc' = "run_except"
                   /\ retrieverCalls' = retrieverCalls
              ELSE /\ pc' = "setup_browser"
                   /\ retrieverCalls' = retrieverCalls + 1
    /\ UNCHANGED <<today, dirExists, files, awaitResult, success,
                   todays_files, raw_file, listCalls, exitStatus, run>>
    /\ UNCHANGED pageVars
    /\ UNCHANGED retrVars

\* Lines 349-358 and the end of the module: run logs the outcome, or logs
\* the exception it caught, and returns None; the interpreter then exits
\* normally.
RunFinish ==
    /\ pc \in {"run_else", "run_except"}
    /\ pc' = "exited"
    /\ exitStatus' = 0
    /\ UNCHANGED <<today, dirExists, files, exc, awaitResult,
                   success, todays_files, raw_file, listCalls, retrieverCalls,
                   run>>
    /\ UNCHANGED pageVars
    /\ UNCHANGED retrVars

\* The scheduler starts the program again on the same day.
NextInvocation ==
    /\ pc = "exited"
    /\ run < MaxRuns
    /\ run' = run + 1
    /\ pc' = "module"
    /\ exc' = "none"
    /\ success' = "unset"
    /\ todays_files' = {}
    /\ raw_file' = "unset"
    /\ listCalls' = 0
    /\ retrieverCalls' = 0
    /\ exitStatus' = -1
    /\ UNCHANGED <<today, dirExists, files, awaitResult>>
    /\ UNCHANGED pageVars
    /\ UNCHANGED retrVars

Next ==
    \/ ModuleStart
    \/ CheckWeekend
    \/ GetTodaysFiles
    \/ InvokeRetriever
    \/ RunFinish
    \/ NextInvocation

Spec == Init /\ [][Next]_vars

-----------------------------------------------------------------------------
(* DownloadFile.download_todays_price, called on its own *)

\* Lines 153-160: the selector candidates, by position in the list.
download_selectors == 1..6

\* Lines 162-174: the position of the first candidate for which wait.until
\* returns an element, 0 (download_link stays None) when every one raises.
Locate(page) ==
    IF page \cap download_selectors = {} THEN 0
    ELSE CHOOSE i \in page \cap download_selectors :
             \A j \in page \cap download_selectors : i <= j

InitRetriever ==
    /\ InitState("setup_browser")
    /\ dirExists = TRUE
    /\ clickable \in SUBSET download_selectors
    /\ clickRaises \in BOOLEAN
    /\ initial_files = {}

\* Lines 131 and 98-127: webdriver.Chrome(options=...) starts the session or
\* raises; an exception here leaves download_todays_price at once.
SetupBrowser ==
    /\ pc = "setup_browser"
    /\ \E started \in BOOLEAN :
          IF started
          THEN /\ session' = "live"
               /\ sessionsStarted' = sessionsStarted + 1
               /\ pc' = "avoid_detection"
               /\ exc' = exc
          ELSE /\ session' = session
               /\ sessionsStarted' = sessionsStarted
               /\ pc' = "retr_raised"
               /\ exc' = "WebDriverException"
    /\ UNCHANGED <<today, dirExists, files, awaitResult,
                   quitAttempted, sweepDone, pageLoaded, initial_files,
                   downloaded_file>>
    /\ UNCHANGED pageVars
    /\ UNCHANGED appVars

\* Lines 134-137, before the try statement: the anti-detection script, then
\* the "before" snapshot.  An exception of execute_script is not inside any
\* try, so it leaves download_todays_price.
AvoidDetection ==
    /\ pc = "avoid_detection"
    /\ \E scriptOk \in BOOLEAN :
          IF scriptOk
          THEN /\ initial_files' = files
               /\ pc' = "navigate"
               /\ exc' = exc
          ELSE /\ initial_files' = initial_files
               /\ pc' = "retr_raised"
               /\ exc' = "WebDriverException"
    /\ UNCHANGED <<today, dirExists, files, awaitResult, session,
                   sessionsStarted, quitAttempted, sweepDone, pageLoaded,
                   downloaded_file>>
    /\ UNCHANGED pageVars
    /\ UNCHANGED appVars

\* Lines 139-148: driver.get(NEPSE_URL), which may raise, then time.sleep(5),
\* which looks up `sleep` on the name `time`.  The selector loop of lines
\* 162-174 (position "locate", computed by Locate) is entered only when that
\* lookup succeeds.
Navigate ==
    /\ pc = "navigate"
    /\ \E getOk \in BOOLEAN :
          LET e == IF getOk THEN GetAttr(time, "sleep") ELSE "WebDriverException"
          IN  /\ pageLoaded' = getOk
              /\ exc' = e
              /\ pc' = IF e = "none" THEN "locate" ELSE "except"
    /\ UNCHANGED <<today, dirExists, files, awaitResult, session,
                   sessionsStarted, quitAttempted, sweepDone, initial_files,
                   downloaded_file>>
    /\ UNCHANGED pageVars
    /\ UNCHANGED appVars

HandleError_retries ==
    /\ pc = "except"
    /\ exc' = "none"
    /\ pc' = "setup_browser"
    /\ UNCHANGED <<today, dirExists, files, awaitResult>>
    /\ UNCHANGED pageVars
    /\ UNCHANGED retrVars
    /\ UNCHANGED appVars

\* Lines 235-238: the exception is logged and printed, and is then handled.
HandleError ==
    /\ pc = "except"
    /\ exc' = "none"
    /\ pc' = "finally"
    /\ UNCHANGED <<today, dirExists, files, awaitResult>>
    /\ UNCHANGED pageVars
    /\ UNCHANGED retrVars
    /\ UNCHANGED appVars

\* Lines 240-262: driver.quit() inside its own try (an exception of quit is
\* caught and logged), then time.sleep(2), kill_chromedriver() and
\* "return downloaded_file".  An exception raised in the finally block
\* leaves download_todays_price.
Cleanup ==
    /\ pc = "finally"
    /\ quitAttempted' = TRUE
    /\ \E quitOk \in BOOLEAN :
          session' = IF quitOk THEN "closed" ELSE session
    /\ LET e == GetAttr(time, "sleep")
       IN  IF e # "none"
           THEN /\ exc' = e
                /\ pc' = "retr_raised"
                /\ sweepDone' = sweepDone
           ELSE /\ sweepDone' = TRUE
                /\ IF downloaded_file = "unbound"
                   THEN /\ exc' = "UnboundLocalError"
                        /\ pc' = "retr_raised"
                   ELSE /\ exc' = exc
                        /\ pc' = "retr_returned"
    /\ UNCHANGED <<today, dirExists, files, awaitResult,
                   sessionsStarted, pageLoaded, initial_files, downloaded_file>>
    /\ UNCHANGED pageVars
    /\ UNCHANGED appVars

NextRetriever ==
    \/ SetupBrowser
    \/ AvoidDetection
    \/ Navigate
    \/ HandleError
    \/ Cleanup

SpecRetriever == InitRetriever /\ [][NextRetriever]_vars

-----------------------------------------------------------------------------
(* Both entry points together: the program is started, or                  *)
(* download_todays_price is called on its own.                             *)

InitEntryPoints == Init \/ InitRetriever

NextEntryPoints == Next \/ NextRetriever

SpecEntryPoints == InitEntryPoints /\ [][NextEntryPoints]_vars

-----------------------------------------------------------------------------
(* DownloadFile.wait_for_download_complete, called on its own *)

\* Lines 80-84: the new files with suffix .csv, whatever its case.
NewCsvFiles(dir, initial) == {f \in dir \ initial : Lower(f.suffix) = ".csv"}

\* Lines 80-90, one poll: the files among which line 90 returns one, empty
\* when the poll returns nothing.
Poll(dir, initial) ==
    IF NewCsvFiles(dir, initial) # {} /\ GlobCrdownload(dir) = {}
    THEN NewCsvFiles(dir, initial)
    ELSE {}

\* The caller has taken the snapshot and calls
\* wait_for_download_complete(download_dir, initial_files, TIMEOUT).
InitAwait ==
    /\ InitState("await")
    /\ dirExists = TRUE
    /\ clickable = {}
    /\ clickRaises = FALSE
    /\ initial_files = files

\* Line 77: start_time = time.time() looks up `time` on the name `time`.
\* The loop of lines 79-94 (position "poll", one iteration is Poll) is entered
\* only when that lookup succeeds.
WaitForDownloadComplete ==
    /\ pc = "await"
    /\ LET e == GetAttr(time, "time")
       IN  /\ exc' = e
           /\ pc' = IF e = "none" THEN "poll" ELSE "await_raised"
    /\ UNCHANGED <<today, dirExists, files, awaitResult>>
    /\ UNCHANGED pageVars
    /\ UNCHANGED retrVars
    /\ UNCHANGED appVars

\* The browser, running beside wait_for_download_complete, creates a file in
\* the download directory.  What it writes after the call has ended is of no
\* consequence for the call.
BrowserCreatesFile ==
    /\ pc \in {"await", "poll"}
    /\ \E f \in FileUniverse \ files : files' = files \cup {f}
    /\ UNCHANGED <<today, dirExists, pc, exc, awaitResult>>
    /\ UNCHANGED pageVars
    /\ UNCHANGED retrVars
    /\ UNCHANGED appVars

\* The browser finishes a transfer: the marker file disappears.
BrowserRemovesMarker ==
    /\ pc \in {"await", "poll"}
    /\ \E f \in GlobCrdownload(files) : files' = files \ {f}
    /\ UNCHANGED <<today, dirExists, pc, exc, awaitResult>>
    /\ UNCHANGED pageVars
    /\ UNCHANGED retrVars
    /\ UNCHANGED appVars

NextAwait ==
    \/ WaitForDownloadComplete
    \/ BrowserCreatesFile
    \/ BrowserRemovesMarker

SpecAwait == InitAwait /\ [][NextAwait]_vars

-----------------------------------------------------------------------------
(* Properties of the program (Spec) *)

NonTradingDay == Weekday(today) \in WEEKEND_DAYS

PastGate == pc \notin {"module", "is_weekend"}

\* C1: on a non-trading day download_todays_data returns the success value
\* and neither lists the store directory (get_todays_files) nor calls the
\* retriever, so no browser session is started.
C1_WeekendSkipsEverything ==
    (NonTradingDay /\ PastGate) =>
        /\ pc \in {"run_else", "exited"}
        /\ success = "True"
        /\ listCalls = 0
        /\ retrieverCalls = 0
        /\ sessionsStarted = 0

C1_Witness == NonTradingDay /\ pc = "exited" /\ success = "True"

\* The files of the store named "<label> - <date>.csv" whose date is d.
ArtifactsFor(d) ==
    {f \in files : /\ f.suffix = ".csv"
                   /\ Len(f.parts) = 2
                   /\ Strptime(f.parts[2]).exc = "none"
                   /\ Strptime(f.parts[2]).day = d}

HasTodaysArtifact ==
    \E f \in files : /\ f.suffix = ".csv"
                      /\ f.parts = <<Label, get_today_date_str(today)>>

\* C2: on a trading day with "Today's Price - <today>.csv" in the store,
\* download_todays_data returns the success value and the retriever is not
\* invoked, in the first invocation and in every later one.
C2_ExistingArtifactSucceeds ==
    (~NonTradingDay /\ HasTodaysArtifact /\ pc = "exited") =>
        /\ success = "True"
        /\ retrieverCalls = 0
        /\ sessionsStarted = 0

\* The download path: a trading day on which get_todays_files returned an
\* empty list.
OnDownloadPath ==
    /\ ~NonTradingDay
    /\ listCalls = 1
    /\ pc # "get_todays_files"
    /\ exc \notin {"TypeError", "ValueError"}
    /\ todays_files = {}

\* C7: on a trading day with no artifact for today download_todays_data
\* invokes the retriever (and returns the success value when the browser
\* flow delivers today's file).  The invocation is what is stated here; the
\* claim requires it whatever the browser then does.
C7_DownloadInvokesRetriever ==
    (OnDownloadPath /\ ArtifactsFor(today) = {} /\ pc = "exited") =>
        retrieverCalls = 1

\* C8: on the download path download_todays_data returns the success value
\* when the retriever returned a file modified today, and the failure value
\* in every other case.
C8_SuccessIffValidated ==
    (OnDownloadPath /\ pc = "exited") =>
        success = IF raw_file \notin {"unset", "None"} /\ raw_file.mday = today
                  THEN "True" ELSE "False"

\* C9: a run in which an exception was raised ends with an exit status that
\* differs from the exit status 0 of a successful run.
C9_FailureObservable ==
    (pc = "exited" /\ exc # "none") => exitStatus # 0

\* C10: get_todays_files never raises because of a file name, and returns
\* exactly the *.csv files whose embedded date is today.
C10_ListingNeverRaises ==
    (listCalls = 1 /\ pc # "get_todays_files") =>
        /\ exc \notin {"TypeError", "ValueError"}
        /\ todays_files = ArtifactsFor(today)

\* C11 as stated: on a non-trading day a complete invocation, module
\* start-up included, writes nothing to the filesystem (no file and no
\* directory is created, modified or deleted), starts no browser session and
\* ends with the success value.
C11_NoFilesystemWrites ==
    /\ [][NonTradingDay => UNCHANGED <<dirExists, files>>]_vars
    /\ [](NonTradingDay /\ pc = "exited" =>
              success = "True" /\ sessionsStarted = 0)

\* C11 as amended: on a non-trading day a complete invocation creates,
\* modifies or deletes no file of the store, starts no browser session and
\* ends with the success value; its only filesystem write is the creation
\* of the store directory by the module start-up when it does not exist.
C11_OnlyCreatesStoreDirectory ==
    /\ [][NonTradingDay =>
              /\ files' = files
              /\ (dirExists' # dirExists => pc = "module" /\ dirExists')]_vars
    /\ [](NonTradingDay /\ pc = "exited" =>
              success = "True" /\ sessionsStarted = 0 /\ dirExists)

C14_NoSecondArtifact ==
    [][(~NonTradingDay /\ ArtifactsFor(today) # {}) =>
           /\ ArtifactsFor(today)' = ArtifactsFor(today)
           /\ pc' \notin {"download", "setup_browser"}]_vars

C14_Witness ==
    /\ ~NonTradingDay
    /\ Cardinality(ArtifactsFor(today)) = 1
    /\ run = 2
    /\ pc = "exited"

C11_Witness ==
    /\ NonTradingDay
    /\ pc = "exited"
    /\ exitStatus = 0
    /\ dirExists
    /\ files # {}

-----------------------------------------------------------------------------
(* Properties of download_todays_price (SpecRetriever) *)

RetrieverEnded == pc \in {"retr_raised", "retr_returned"}

\* C4: every end of download_todays_price that follows a successful session
\* start has attempted driver.quit().
C4_SessionAlwaysQuit ==
    (RetrieverEnded /\ sessionsStarted > 0) => quitAttempted

\* C5: when the page is loaded and no selector candidate finds a clickable
\* element, download_todays_price returns None; it does not raise.
C5_NotFoundResolvesToNone ==
    (RetrieverEnded /\ pageLoaded /\ clickable = {}) =>
        /\ pc = "retr_returned"
        /\ downloaded_file = "None"

FirstClickable == CHOOSE i \in clickable : \A j \in clickable : i <= j

\* C15: on a loaded page on which candidates 1..N do not match and candidate
\* N+1 does, the element bound to download_link and used for the click is
\* the one found by candidate N+1.
C15_FirstMatchingSelectorWins ==
    (RetrieverEnded /\ pageLoaded /\ clickable # {}) =>
        download_link = FirstClickable

\* C16: on a loaded page with a matching candidate whose click raises, the
\* retrieval does not fail: download_todays_price goes on to the polling and
\* ends by returning its result.
C16_ClickFailureIsTolerated ==
    (RetrieverEnded /\ pageLoaded /\ clickable # {} /\ clickRaises) =>
        pc = "retr_returned"

-----------------------------------------------------------------------------
(* Properties of both entry points (SpecEntryPoints) *)

\* C18: within one invocation the retriever is invoked at most once and at
\* most one browser session is started; the retrieval step (line 338) is
\* entered only from the gate and the session start (line 131) only from the
\* call, so a failed retrieval is not followed by a second attempt.
C18_NoSecondAttempt ==
    /\ [](retrieverCalls <= 1 /\ sessionsStarted <= 1)
    /\ [][pc' = "download" => pc = "get_todays_files"]_vars
    /\ [][pc' = "setup_browser" => pc = "download"]_vars

C18_Witness ==
    /\ pc = "retr_raised"
    /\ sessionsStarted = 1
    /\ quitAttempted
    /\ exc = "AttributeError"

-----------------------------------------------------------------------------
(* Properties of wait_for_download_complete (SpecAwait) *)

AwaitEnded == pc \in {"await_raised", "await_returned"}

\* C6: when no new CSV file appears, wait_for_download_complete ends by
\* returning None; it does not raise.
C6_TimeoutReturnsNone ==
    (AwaitEnded /\ NewCsvFiles(files, initial_files) = {}) =>
        /\ pc = "await_returned"
        /\ awaitResult = "None"

\* The new CSV files with the largest modification time.
NewestNewCsv ==
    {f \in NewCsvFiles(files, initial_files) :
        \A g \in NewCsvFiles(files, initial_files) : g.mday <= f.mday}

\* C17: when several new CSV files are complete in the directory (no marker
\* is present), wait_for_download_complete returns the newest of them.
C17_NewestFileReturned ==
    (/\ AwaitEnded
     /\ Cardinality(NewCsvFiles(files, initial_files)) > 1
     /\ GlobCrdownload(files) = {}) =>
        /\ pc = "await_returned"
        /\ awaitResult \in NewestNewCsv

\* C20: with a marker that was in the directory before the attempt and is
\* still there, wait_for_download_complete returns None although a new CSV
\* file has appeared.
C20_StaleMarkerBlocksUntilTimeout ==
    (/\ AwaitEnded
     /\ GlobCrdownload(initial_files) \cap files # {}
     /\ NewCsvFiles(files, initial_files) # {}) =>
        /\ pc = "await_returned"
        /\ awaitResult = "None"

====
